---- MODULE Spec2Model ----
(***************************************************************************)
(* Model of the provider integrations of app/integrations:                  *)
(*   GoogleWorkspaceIntegration (google.py), "Workspace-style" adapter      *)
(*   Microsoft365Integration   (microsoft.py), "Graph-style" adapter        *)
(*                                                                          *)
(* Two specifications share the module:                                     *)
(*   SpecSync  one get_contacts call against a provider that serves a page  *)
(*             chain and may fail any request;                              *)
(*   SpecSub   subscribe_to_realtime_events / renew_subscription calls of   *)
(*             two concurrent callers against the provider's registrations. *)
(***************************************************************************)
EXTENDS Integers, Sequences, FiniteSets, TLC

VARIABLES
    \* ---- get_contacts (SpecSync) ----
    adapter,        \* "google_workspace" | "microsoft_365": the class in use
    sync_token,     \* the sync_token argument of the caller's get_contacts call
    fullChain,      \* provider: the pages a full listing is served in
    deltaChain,     \* provider: the pages an incremental listing is served in
    stack,          \* activation records of get_contacts, innermost last
    pc,             \* "running" | "done" | "error"
    requests,       \* every request sent to the provider, in order
    outcomes,       \* per request: "ok" or how it failed
    responses,      \* every successful response received, in order
    result,         \* the (contacts, next_sync_token) tuple returned, or NoResult
    error,          \* the IntegrationException raised to the caller, or NoError
    \* ---- subscriptions (SpecSub) ----
    now,            \* provider clock
    registrations,  \* provider: the push registrations that exist upstream
    nextId,         \* source of fresh ids (uuid4 / provider-issued ids)
    callers,        \* per caller: the call in progress and its locals
    reported,       \* what the calls have returned to their callers
    calls,          \* number of subscribe / renew calls started so far
    \* ---- get_email_content (SpecMail) ----
    message,        \* provider: the Gmail message the call asks for
    mail_pc,        \* "calling" | "done" | "error" | "idle"
    email           \* the dict get_email_content returned, or NoEmail

syncVars == <<adapter, sync_token, fullChain, deltaChain, stack, pc, requests,
              outcomes, responses, result, error>>
subVars == <<now, registrations, nextId, callers, reported, calls>>
mailVars == <<message, mail_pc, email>>
vars == <<adapter, sync_token, fullChain, deltaChain, stack, pc, requests,
          outcomes, responses, result, error, now, registrations, nextId, callers,
          reported, calls, message, mail_pc, email>>

-----------------------------------------------------------------------------
(* Bounds *)

\* most sub-parts a part of a Gmail message holds
MaxParts == 2
\* deepest nesting of the parts of a Gmail message payload
MaxDepth == 2
\* longest page chain the provider serves
MaxPages == 2
\* requests one get_contacts call may send before the model stops following it
MaxRequests == 3
\* the provider clock stops the model at this time
MaxTime == 7
\* subscribe_to_realtime_events / renew_subscription calls the callers make
MaxCalls == 3
\* lifetime the Workspace-style provider grants a watch, in clock ticks
WatchTtl == 4
\* clock ticks in a day
TicksPerDay == 2

-----------------------------------------------------------------------------
(* Python values *)

\* None
NULL == "<None>"
\* a dict key that is not set
Absent == "<absent>"

\* bool(s) of a str | None
Truthy(s) == s # NULL /\ s # ""

Google == "google_workspace"
Microsoft == "microsoft_365"

NoResult == [contacts |-> <<>>, next_sync_token |-> "<no result>"]
NoError == [provider |-> "", operation |-> "", cause |-> ""]

RECURSIVE Flatten(_)
\* the concatenation of a sequence of sequences
Flatten(ss) == IF ss = <<>> THEN <<>> ELSE Head(ss) \o Flatten(Tail(ss))

RECURSIVE MapSeq(_, _)
\* [Op(x) for x in s]
MapSeq(Op(_), s) == IF s = <<>> THEN <<>> ELSE <<Op(Head(s))>> \o MapSeq(Op, Tail(s))

\* all sequences over S of length lo..hi
SeqsOf(S, lo, hi) == UNION {[1..n -> S] : n \in lo..hi}

-----------------------------------------------------------------------------
(* Provider data: raw entries as the two APIs hand them out *)

\* People API connections
G0 == [resourceName |-> "people/g0", names |-> <<>>,
       emailAddresses |-> <<>>, phoneNumbers |-> <<>>]
G1 == [resourceName |-> "people/g1", names |-> <<"Ann">>,
       emailAddresses |-> <<"ann@x">>, phoneNumbers |-> <<>>]
G2 == [resourceName |-> "people/g2", names |-> <<>>,
       emailAddresses |-> <<NULL>>, phoneNumbers |-> <<"555">>]
\* connections that only the incremental listing serves
GD0 == [resourceName |-> "people/d0", names |-> <<"Gone">>,
        emailAddresses |-> <<>>, phoneNumbers |-> <<>>]
GD1 == [resourceName |-> "people/d1", names |-> <<"Del">>,
        emailAddresses |-> <<"del@x">>, phoneNumbers |-> <<>>]

\* a JSON value of a Graph phone field: a list of strings, or a string / None
L(items) == [isList |-> TRUE, items |-> items, value |-> NULL]
S(value) == [isList |-> FALSE, items |-> <<>>, value |-> value]

\* Graph contacts
M0 == [id |-> "m0", displayName |-> "Nobody", emailAddresses |-> <<NULL, "">>,
       businessPhones |-> L(<<"">>), homePhones |-> S(NULL), mobilePhone |-> S(NULL)]
M1 == [id |-> "m1", displayName |-> "Ann", emailAddresses |-> <<"", "ann@x">>,
       businessPhones |-> L(<<>>), homePhones |-> L(<<"444">>), mobilePhone |-> S(NULL)]
M2 == [id |-> "m2", displayName |-> NULL, emailAddresses |-> <<>>,
       businessPhones |-> L(<<"555">>), homePhones |-> L(<<>>), mobilePhone |-> S("666")]
\* contacts that only the delta listing serves
MD0 == [id |-> "d0", displayName |-> "Gone", emailAddresses |-> <<>>,
        businessPhones |-> L(<<>>), homePhones |-> L(<<>>), mobilePhone |-> S("")]
MD1 == [id |-> "d1", displayName |-> "Del", emailAddresses |-> <<"del@x">>,
        businessPhones |-> L(<<>>), homePhones |-> L(<<>>), mobilePhone |-> S(NULL)]

\* the pages a provider may cut a full listing into
FullPages(a) == IF a = Google THEN {<<>>, <<G1>>, <<G0, G2>>}
                ELSE {<<>>, <<M1>>, <<M0, M2>>}

\* the pages a provider may cut an incremental listing into
DeltaPages(a) == IF a = Google THEN {<<GD0>>, <<GD1>>} ELSE {<<MD0>>, <<MD1>>}

-----------------------------------------------------------------------------
(* Normalisation of contacts *)

Identifier(type, value) == [type |-> type, value |-> value]

Email(value) == Identifier("email", value)
Phone(value) == Identifier("phone", value)

\* the None a parser returns for an entry it drops
NoContact == [id |-> NULL, name |-> NULL, identifiers |-> <<>>]

\* a faulty variant of ParseGoogleContact: the entry is returned whatever it holds
ParseGoogleContactKeepsAll(connection) ==
    [id |-> connection.resourceName,
     name |-> IF connection.names # <<>> THEN connection.names[1] ELSE Absent,
     identifiers |-> MapSeq(Email, connection.emailAddresses)
                     \o MapSeq(Phone, connection.phoneNumbers)]

\* _parse_google_contact
ParseGoogleContact(connection) ==
    LET name == IF connection.names # <<>> THEN connection.names[1] ELSE Absent
        identifiers == MapSeq(Email, connection.emailAddresses)
                       \o MapSeq(Phone, connection.phoneNumbers)
        contact == [id |-> connection.resourceName, name |-> name,
                    identifiers |-> identifiers]
    IN  IF identifiers # <<>> THEN contact ELSE NoContact

\* the identifiers one Graph phone field contributes
PhonesOf(phones) ==
    IF phones.isList
    THEN MapSeq(Phone, SelectSeq(phones.items, Truthy))
    ELSE IF Truthy(phones.value) THEN <<Phone(phones.value)>> ELSE <<>>

\* _parse_microsoft_contact
ParseMicrosoftContact(contact) ==
    LET identifiers == MapSeq(Email, SelectSeq(contact.emailAddresses, Truthy))
                       \o PhonesOf(contact.businessPhones)
                       \o PhonesOf(contact.homePhones)
                       \o PhonesOf(contact.mobilePhone)
        contact_data == [id |-> contact.id, name |-> contact.displayName,
                         identifiers |-> identifiers]
    IN  IF identifiers # <<>> THEN contact_data ELSE NoContact

RECURSIVE ParsePage(_, _)
\* the loop over one response's entries: parse each, keep what is not None
ParsePage(a, entries) ==
    IF entries = <<>> THEN <<>>
    ELSE LET connection == Head(entries)
             contact_data == IF a = Google THEN ParseGoogleContact(connection)
                             ELSE ParseMicrosoftContact(connection)
         IN  (IF contact_data # NoContact THEN <<contact_data>> ELSE <<>>)
             \o ParsePage(a, Tail(entries))

-----------------------------------------------------------------------------
(* get_contacts: requests and the provider's answers *)

\* a nextPageToken names a page of one listing; NoPage is None
NoPage == [chain |-> "", page |-> 0]

\* params of people.connections.list as get_contacts builds them
GoogleParams(token, next_page_token) ==
    [resourceName |-> "people/me",
     syncToken |-> IF Truthy(token) THEN token ELSE Absent,
     pageToken |-> IF ~Truthy(token) /\ next_page_token # NoPage
                   THEN next_page_token ELSE NoPage,
     requestSyncToken |-> ~Truthy(token) /\ next_page_token = NoPage]

\* People API: the response to params; nst is the sync token the provider
\* chooses to hand out with the last page (NULL: none)
GoogleList(params, nst) ==
    LET name == IF params.pageToken # NoPage THEN params.pageToken.chain
                ELSE IF params.syncToken # Absent THEN "delta" ELSE "full"
        chain == IF name = "delta" THEN deltaChain ELSE fullChain
        k == IF params.pageToken # NoPage THEN params.pageToken.page ELSE 1
    IN  [connections |-> chain[k],
         nextPageToken |-> IF k < Len(chain) THEN [chain |-> name, page |-> k + 1]
                           ELSE NoPage,
         nextSyncToken |-> IF k < Len(chain) THEN NULL ELSE nst]

\* Graph URLs; NoUrl is None
NoUrl == [endpoint |-> "", deltatoken |-> Absent, skiptoken |-> 0]
\* f"{GRAPH_BASE_URL}/me/contacts/delta?$deltatoken={sync_token}"
DeltaUrl(token) == [endpoint |-> "/me/contacts/delta", deltatoken |-> token, skiptoken |-> 0]
\* f"{GRAPH_BASE_URL}/me/contacts?$top=100"
ContactsUrl == [endpoint |-> "/me/contacts", deltatoken |-> Absent, skiptoken |-> 0]

\* the url get_contacts starts from
InitialUrl(token) == IF Truthy(token) THEN DeltaUrl(token) ELSE ContactsUrl

\* an @odata.deltaLink: its query string as (key, value) pairs; NoLink is None
NoLink == [present |-> FALSE, query |-> <<>>]
DeltaLink(query) == [present |-> TRUE, query |-> query]

\* the delta links the provider may hand out with a last page
DeltaLinks == {
    NoLink,
    DeltaLink(<< <<"$deltatoken", "D2">> >>),
    DeltaLink(<< <<"$skip", "0">>, <<"$deltatoken", "">>, <<"$deltatoken", "D3">> >>),
    DeltaLink(<< <<"$deltatoken", "">> >>) }

\* Graph: the response to GET url; link is the delta link the provider
\* chooses to hand out with the last page
GraphGet(url, link) ==
    LET chain == IF url.endpoint = "/me/contacts/delta" THEN deltaChain ELSE fullChain
        k == IF url.skiptoken = 0 THEN 1 ELSE url.skiptoken
    IN  [value |-> chain[k],
         nextLink |-> IF k < Len(chain) THEN [url EXCEPT !.skiptoken = k + 1] ELSE NoUrl,
         deltaLink |-> IF k < Len(chain) THEN NoLink ELSE link]

\* a faulty variant of ParseDeltaToken: blank values are kept
ParseDeltaTokenKeepsBlank(delta_link) ==
    LET IsToken(p) == p[1] = "$deltatoken"
        values == SelectSeq(delta_link.query, IsToken)
    IN  IF values = <<>> THEN NULL ELSE values[1][2]

\* urllib.parse.parse_qs(query).get("$deltatoken", [None])[0]: parse_qs keeps
\* a key's values in order and leaves out blank ones
ParseDeltaToken(delta_link) ==
    LET IsToken(p) == p[1] = "$deltatoken" /\ p[2] # ""
        values == SelectSeq(delta_link.query, IsToken)
    IN  IF values = <<>> THEN NULL ELSE values[1][2]

\* next_sync_token as computed after the Graph loop
NextSyncTokenOf(delta_link) ==
    IF delta_link.present THEN ParseDeltaToken(delta_link) ELSE NULL

\* how a request can fail: HTTP status, or a body that is not the expected JSON
Gone == "410"
Failures == {Gone, "401", "429", "500", "malformed"}

\* the exception get_contacts raises
IntegrationException(provider, operation, cause) ==
    [provider |-> provider, operation |-> operation, cause |-> cause]

\* the activation record of one get_contacts invocation
Frame(token) ==
    [sync_token |-> token, contacts |-> <<>>, next_page_token |-> NoPage,
     url |-> IF adapter = Microsoft THEN InitialUrl(token) ELSE NoUrl]

\* a faulty variant of Restart: the retry keeps the rejected token
RestartWithSameToken(frame) == Frame(frame.sync_token)

\* self.get_contacts(sync_token=None): the invocation the 410 handler starts
Restart(frame) == Frame(NULL)

Top == stack[Len(stack)]

-----------------------------------------------------------------------------
(* get_email_content: Gmail messages and their normalisation *)

\* a part of a Gmail payload; hasParts: the "parts" key is set
Part(filename, hasParts, parts) ==
    [filename |-> filename, hasParts |-> hasParts, parts |-> parts]

\* the filenames parts carry: key not set, empty, blank, a file's name
Filenames == {Absent, "", " ", "a.pdf"}

\* str.strip() on these filenames
Strip(filename) == IF filename = " " THEN "" ELSE filename

RECURSIVE PartsOfDepth(_)
\* the parts that nest at most d levels of sub-parts
PartsOfDepth(d) ==
    IF d = 0 THEN {Part(f, FALSE, <<>>) : f \in Filenames}
    ELSE {Part(f, FALSE, <<>>) : f \in Filenames}
         \cup {Part(f, TRUE, ps) : f \in Filenames,
                                   ps \in SeqsOf(PartsOfDepth(d - 1), 1, MaxParts)}

\* the payloads the provider may serve: one body, or parts
Payloads ==
    {Part("", FALSE, <<>>)}
    \cup {Part("", TRUE, ps) : ps \in SeqsOf(PartsOfDepth(MaxDepth - 1), 1, MaxParts)}

\* part.get("filename") and part["filename"].strip()
HasFilename(part) == part.filename # Absent /\ Truthy(part.filename)
                     /\ Truthy(Strip(part.filename))

\* has_attachments as _parse_gmail_message computes it: the loop over
\* message["payload"]["parts"]
HasAttachments(payload) ==
    /\ payload.hasParts
    /\ \E i \in 1..Len(payload.parts) : HasFilename(payload.parts[i])

NoEmail == [id |-> NULL, has_attachments |-> FALSE]

\* _parse_gmail_message
ParseGmailMessage(m) == [id |-> m.id, has_attachments |-> HasAttachments(m.payload)]

\* what the get_email_content variables hold while no such call is followed
MailIdle ==
    /\ message = [id |-> NULL, payload |-> Part("", FALSE, <<>>)]
    /\ mail_pc = "idle"
    /\ email = NoEmail

InitMail ==
    /\ message \in {[id |-> "msg1", payload |-> p] : p \in Payloads}
    /\ mail_pc = "calling"
    /\ email = NoEmail
    /\ adapter = Google
    /\ sync_token = NULL /\ fullChain = <<>> /\ deltaChain = <<>> /\ stack = <<>>
    /\ pc = "idle" /\ requests = <<>> /\ outcomes = <<>> /\ responses = <<>>
    /\ result = NoResult
    /\ error = NoError
    /\ now = 0 /\ registrations = {} /\ nextId = 1 /\ callers = <<>>
    /\ reported = {} /\ calls = [subscribe |-> 0, renew |-> 0]

\* google.py get_email_content: messages.get succeeds and the message is parsed
GetEmailContent ==
    /\ mail_pc = "calling"
    /\ email' = ParseGmailMessage(message)
    /\ mail_pc' = "done"
    /\ UNCHANGED <<message, syncVars, subVars>>

\* google.py get_email_content: messages.get raises
GetEmailContentFails ==
    /\ mail_pc = "calling"
    /\ \E f \in {"401", "404", "429", "500"} :
        error' = [provider |-> Google, operation |-> "get_email_content", cause |-> f]
    /\ mail_pc' = "error"
    /\ UNCHANGED <<message, email, now, registrations, nextId, callers, reported, calls>>
    /\ UNCHANGED <<adapter, sync_token, fullChain, deltaChain, stack, pc, requests,
                   outcomes, responses, result>>

NextMail ==
    \/ GetEmailContent
    \/ GetEmailContentFails

SpecMail == InitMail /\ [][NextMail]_vars

-----------------------------------------------------------------------------
(* get_contacts: the steps of a call *)

SubIdle ==
    /\ now = 0
    /\ registrations = {}
    /\ nextId = 1
    /\ callers = <<>>
    /\ reported = {}
    /\ calls = [subscribe |-> 0, renew |-> 0]

InitSync ==
    /\ adapter \in {Google, Microsoft}
    /\ sync_token \in {NULL, "", "T1"}
    /\ fullChain \in SeqsOf(FullPages(adapter), 1, MaxPages)
    /\ deltaChain \in SeqsOf(DeltaPages(adapter), 1, MaxPages)
    /\ stack = <<Frame(sync_token)>>
    /\ pc = "running"
    /\ requests = <<>>
    /\ outcomes = <<>>
    /\ responses = <<>>
    /\ result = NoResult
    /\ error = NoError
    /\ SubIdle
    /\ MailIdle

\* the call returns (contacts, next_sync_token); a recursive invocation's
\* return value is returned unchanged by the invocations below it
Return(contacts, next_sync_token) ==
    /\ result' = [contacts |-> contacts, next_sync_token |-> next_sync_token]
    /\ pc' = "done"
    /\ stack' = <<>>
    /\ error' = error

\* a faulty variant of Raise: the failure is swallowed and what was accumulated
\* is returned
RaiseReturnsPartial(cause) ==
    /\ result' = [contacts |-> stack[Len(stack)].contacts, next_sync_token |-> NULL]
    /\ pc' = "done"
    /\ stack' = <<>>
    /\ error' = error

\* an exception leaves the try block: every invocation on the stack wraps it
\* in IntegrationException with the same provider and operation
Raise(cause) ==
    /\ error' = IntegrationException(adapter, "get_contacts", cause)
    /\ pc' = "error"
    /\ stack' = <<>>
    /\ result' = result

\* a request goes out and the provider answers it
Send(request, outcome) ==
    /\ requests' = Append(requests, request)
    /\ outcomes' = Append(outcomes, outcome)

\* google.py: one iteration of the while loop whose request succeeds
GoogleFetchPage ==
    /\ adapter = Google /\ pc = "running" /\ Len(requests) < MaxRequests
    /\ \E nst \in {NULL, "S2"} :
        LET params == GoogleParams(Top.sync_token, Top.next_page_token)
            response == GoogleList(params, nst)
            contacts == Top.contacts \o ParsePage(Google, response.connections)
        IN  /\ Send(params, "ok")
            /\ responses' = Append(responses, response)
            /\ IF response.nextPageToken = NoPage
               THEN Return(contacts, response.nextSyncToken)
               ELSE /\ stack' = [stack EXCEPT ![Len(stack)] =
                                   [@ EXCEPT !.contacts = contacts,
                                             !.next_page_token = response.nextPageToken]]
                    /\ UNCHANGED <<pc, result, error>>
    /\ UNCHANGED <<adapter, sync_token, fullChain, deltaChain>>
    /\ UNCHANGED <<subVars, mailVars>>

\* google.py: HttpError 410 while a sync token is in use:
\* return await self.get_contacts(sync_token=None)
GoogleSyncTokenExpired ==
    /\ adapter = Google /\ pc = "running" /\ Len(requests) < MaxRequests
    /\ Truthy(Top.sync_token)
    /\ Send(GoogleParams(Top.sync_token, Top.next_page_token), Gone)
    /\ stack' = Append(stack, Restart(Top))
    /\ UNCHANGED <<adapter, sync_token, fullChain, deltaChain, pc, responses, result, error>>
    /\ UNCHANGED <<subVars, mailVars>>

\* google.py: any other failure of the request (and 410 without a sync token)
GoogleRequestFails ==
    /\ adapter = Google /\ pc = "running" /\ Len(requests) < MaxRequests
    /\ \E f \in Failures :
        /\ f = Gone => ~Truthy(Top.sync_token)
        /\ Send(GoogleParams(Top.sync_token, Top.next_page_token), f)
        /\ Raise(f)
    /\ UNCHANGED <<adapter, sync_token, fullChain, deltaChain, responses>>
    /\ UNCHANGED <<subVars, mailVars>>

\* microsoft.py: one iteration of the while loop whose request succeeds
MicrosoftFetchPage ==
    /\ adapter = Microsoft /\ pc = "running" /\ Len(requests) < MaxRequests
    /\ \E link \in DeltaLinks :
        LET data == GraphGet(Top.url, link)
            contacts == Top.contacts \o ParsePage(Microsoft, data.value)
        IN  /\ Send(Top.url, "ok")
            /\ responses' = Append(responses, data)
            /\ IF data.nextLink = NoUrl
               THEN Return(contacts, NextSyncTokenOf(data.deltaLink))
               ELSE /\ stack' = [stack EXCEPT ![Len(stack)] =
                                   [@ EXCEPT !.contacts = contacts,
                                             !.url = data.nextLink]]
                    /\ UNCHANGED <<pc, result, error>>
    /\ UNCHANGED <<adapter, sync_token, fullChain, deltaChain>>
    /\ UNCHANGED <<subVars, mailVars>>

\* microsoft.py: raise_for_status() or response.json() raises
MicrosoftRequestFails ==
    /\ adapter = Microsoft /\ pc = "running" /\ Len(requests) < MaxRequests
    /\ \E f \in Failures :
        /\ Send(Top.url, f)
        /\ Raise(f)
    /\ UNCHANGED <<adapter, sync_token, fullChain, deltaChain, responses>>
    /\ UNCHANGED <<subVars, mailVars>>

NextSync ==
    \/ GoogleFetchPage
    \/ GoogleSyncTokenExpired
    \/ GoogleRequestFails
    \/ MicrosoftFetchPage
    \/ MicrosoftRequestFails

SpecSync == InitSync /\ [][NextSync]_vars

-----------------------------------------------------------------------------
(* Subscriptions: the provider's registrations and the callers *)

\* the two callers that may have a call in progress at the same time
Callers == {1, 2}

\* the account the adapter's access token belongs to, and its user id
Account == "me"
UserId == "u1"

\* timedelta(days=3): the lifetime subscribe_to_realtime_events asks Graph for
SubscriptionDays == 3

\* the entry of a returned dict for one resource; NoSub: the key is not set
Sub(id, resource, expiration, client_state) ==
    [id |-> id, resource |-> resource, expiration |-> expiration,
     clientState |-> client_state]
NoSub == Sub(Absent, Absent, 0, Absent)

\* a registration as the provider keeps it
Registration(id, kind, user_id, expires_at) ==
    [id |-> id, kind |-> kind, provider |-> adapter, account |-> Account,
     userId |-> user_id, expires_at |-> expires_at]

\* a registration is Active while it has not expired
Active(r) == r.expires_at > now

\* str(uuid.uuid4()), and the ids Graph issues: never the same twice
FreshId(n) == ToString(n)

\* a caller with no call in progress
Idle ==
    [phase |-> "idle", op |-> "", step |-> "", user_id |-> "", subscription_id |-> "",
     expiration_date |-> 0, subscriptions |-> [email |-> NoSub, calendar |-> NoSub],
     client_state |-> "", expiration |-> 0, overlap |-> FALSE, expired |-> FALSE]

\* what the get_contacts variables hold while only subscriptions are followed
SyncIdle ==
    /\ sync_token = NULL
    /\ fullChain = <<>>
    /\ deltaChain = <<>>
    /\ stack = <<>>
    /\ pc = "idle"
    /\ requests = <<>>
    /\ outcomes = <<>>
    /\ responses = <<>>
    /\ result = NoResult
    /\ error = NoError

InitSub ==
    /\ adapter \in {Google, Microsoft}
    /\ SyncIdle
    /\ now = 0
    /\ registrations = {}
    /\ nextId = 1
    /\ callers = [c \in Callers |-> Idle]
    /\ reported = {}
    /\ calls = [subscribe |-> 0, renew |-> 0]
    /\ MailIdle

\* the subscription ids the callers have been handed
KnownIds ==
    ({rep.email.id : rep \in {x \in reported : x.ok}}
     \cup {rep.calendar.id : rep \in {x \in reported : x.ok}}) \ {Absent}

\* a call of another caller on the same subscription is in progress
Overlaps(c, op, id) ==
    \E o \in Callers \ {c} :
        /\ callers[o].phase = "pending"
        /\ callers[o].op = op
        /\ callers[o].subscription_id = id

\* caller c may start a call: the callers are interchangeable, so the second
\* one is followed only for calls made while the first has one in progress
MayCall(c) ==
    /\ callers[c].phase = "idle"
    /\ c = 1 \/ callers[1].phase = "pending"

\* a caller invokes subscribe_to_realtime_events(user_id, notification_url)
CallSubscribe(c) ==
    /\ MayCall(c)
    /\ calls.subscribe + calls.renew < MaxCalls
    /\ callers' = [callers EXCEPT ![c] =
                      [Idle EXCEPT !.phase = "pending", !.op = "subscribe",
                                   !.step = "email", !.user_id = UserId]]
    /\ calls' = [calls EXCEPT !.subscribe = @ + 1]
    /\ UNCHANGED <<now, registrations, nextId, reported>>
    /\ UNCHANGED <<syncVars, mailVars>>

\* the subscription of this id has passed its expires_at
Expired(id) == \E r \in registrations : r.id = id /\ ~Active(r)

\* a caller invokes renew_subscription(subscription_id, expiration_date)
CallRenew(c) ==
    /\ MayCall(c)
    /\ calls.subscribe + calls.renew < MaxCalls
    /\ \E id \in KnownIds, expiration_date \in {now + 1, now + SubscriptionDays * TicksPerDay} :
        callers' = [o \in Callers |->
            IF o = c
            THEN [Idle EXCEPT !.phase = "pending", !.op = "renew", !.step = "renew",
                              !.subscription_id = id,
                              !.expiration_date = expiration_date,
                              !.overlap = Overlaps(c, "renew", id),
                              !.expired = Expired(id)]
            ELSE IF callers[o].phase = "pending" /\ callers[o].op = "renew"
                    /\ callers[o].subscription_id = id
                 THEN [callers[o] EXCEPT !.overlap = TRUE]
                 ELSE callers[o]]
    /\ calls' = [calls EXCEPT !.renew = @ + 1]
    /\ UNCHANGED <<now, registrations, nextId, reported>>
    /\ UNCHANGED <<syncVars, mailVars>>

\* what a finished call hands to its caller: the returned dict, or the
\* IntegrationException (ok = FALSE)
Report(c, ok, subscriptions) ==
    [caller |-> c, op |-> callers[c].op,
     subscription_id |-> callers[c].subscription_id,
     overlap |-> callers[c].overlap, expired |-> callers[c].expired, ok |-> ok,
     email |-> subscriptions.email, calendar |-> subscriptions.calendar,
     error |-> NoError]

\* the call of caller c ends
Finish(c, ok, subscriptions) ==
    /\ reported' = reported \cup {Report(c, ok, subscriptions)}
    /\ callers' = [callers EXCEPT ![c] = Idle]

\* the call of caller c ends in the except block of the method named
\* operation: raise IntegrationException(..., provider=..., operation=...)
Abort(c, operation) ==
    /\ reported' = reported \cup
           {[Report(c, FALSE, [email |-> NoSub, calendar |-> NoSub])
                EXCEPT !.error = IntegrationException(adapter, operation, "failed")]}
    /\ callers' = [callers EXCEPT ![c] = Idle]

-----------------------------------------------------------------------------
(* Subscriptions: the operations *)

\* Gmail users.watch: a mailbox has one watch, a new call replaces it
GmailWatch(regs, at) ==
    {r \in regs : r.kind # "email"}
    \cup {Registration("gmail-watch", "email", Account, at + WatchTtl)}

\* a faulty variant of CalendarChannelId: the id handed in is used as the channel id
ChannelIdFromArgument(user_id, n) == user_id

\* channel_id = str(uuid.uuid4())
CalendarChannelId(user_id, n) == FreshId(n)

\* Calendar events.watch: every call opens a channel of its own
CalendarWatch(regs, channel_id, user_id, at) ==
    regs \cup {Registration(channel_id, "calendar", user_id, at + WatchTtl)}

\* google.py subscribe_to_realtime_events(user_id, None). The client's
\* execute() calls block, so the body runs without giving way to another
\* call; each of the two requests takes one tick of the provider clock.
GoogleSubscribeBody(c, user_id) ==
    /\ now + 2 <= MaxTime
    /\ LET channel_id == CalendarChannelId(user_id, nextId)
           gmail == Sub(Absent, "gmail", now + WatchTtl, Absent)
           calendar == Sub(channel_id, "calendar", now + 1 + WatchTtl, Absent)
       IN  \/ \* users.watch raises
              /\ now' = now + 1
              /\ UNCHANGED <<registrations, nextId>>
              /\ Abort(c, "subscribe_to_realtime_events")
           \/ \* events.watch raises
              /\ now' = now + 2
              /\ registrations' = GmailWatch(registrations, now)
              /\ nextId' = nextId + 1
              /\ Abort(c, "subscribe_to_realtime_events")
           \/ \* both succeed
              /\ now' = now + 2
              /\ registrations' =
                     CalendarWatch(GmailWatch(registrations, now), channel_id,
                                   user_id, now + 1)
              /\ nextId' = nextId + 1
              /\ Finish(c, TRUE, [email |-> gmail, calendar |-> calendar])
    /\ UNCHANGED calls
    /\ UNCHANGED <<syncVars, mailVars>>

\* google.py subscribe_to_realtime_events
GoogleSubscribe(c) ==
    /\ adapter = Google
    /\ callers[c].phase = "pending" /\ callers[c].op = "subscribe"
    /\ GoogleSubscribeBody(c, callers[c].user_id)

\* google.py renew_subscription:
\* return await self.subscribe_to_realtime_events(subscription_id, None)
GoogleRenew(c) ==
    /\ adapter = Google
    /\ callers[c].phase = "pending" /\ callers[c].op = "renew"
    /\ GoogleSubscribeBody(c, callers[c].subscription_id)

\* Graph POST /subscriptions: a registration with a provider-issued id
CreateSubscription(regs, id, kind, expiration) ==
    regs \cup {Registration(id, kind, Account, expiration)}

\* the resource a Graph subscription of a kind watches
Resource(kind) == IF kind = "email" THEN "/me/messages" ELSE "/me/events"

\* microsoft.py subscribe_to_realtime_events up to its first await: client
\* state, expiration, and the POST for /me/messages
MicrosoftSubscribeEmail(c) ==
    /\ adapter = Microsoft
    /\ callers[c].phase = "pending" /\ callers[c].op = "subscribe"
    /\ callers[c].step = "email"
    /\ now < MaxTime
    /\ now' = now + 1
    /\ LET client_state == "client-state"
           expiration == now + SubscriptionDays * TicksPerDay
           id == FreshId(nextId)
       IN  \/ \* the POST fails
              /\ UNCHANGED <<registrations, nextId>>
              /\ Abort(c, "subscribe_to_realtime_events")
           \/ /\ registrations' = CreateSubscription(registrations, id, "email", expiration)
              /\ nextId' = nextId + 1
              /\ callers' = [callers EXCEPT ![c] =
                     [@ EXCEPT !.step = "calendar",
                               !.client_state = client_state,
                               !.expiration = expiration,
                               !.subscriptions.email =
                                   Sub(id, Resource("email"), expiration, client_state)]]
              /\ UNCHANGED reported
    /\ UNCHANGED calls
    /\ UNCHANGED <<syncVars, mailVars>>

\* microsoft.py subscribe_to_realtime_events from the POST for /me/events on
MicrosoftSubscribeCalendar(c) ==
    /\ adapter = Microsoft
    /\ callers[c].phase = "pending" /\ callers[c].op = "subscribe"
    /\ callers[c].step = "calendar"
    /\ now < MaxTime
    /\ now' = now + 1
    /\ LET id == FreshId(nextId)
           calendar_sub == Sub(id, Resource("calendar"), callers[c].expiration,
                               callers[c].client_state)
       IN  \/ \* the POST fails
              /\ UNCHANGED <<registrations, nextId>>
              /\ Abort(c, "subscribe_to_realtime_events")
           \/ /\ registrations' = CreateSubscription(registrations, id, "calendar",
                                                     callers[c].expiration)
              /\ nextId' = nextId + 1
              /\ Finish(c, TRUE, [callers[c].subscriptions EXCEPT !.calendar = calendar_sub])
    /\ UNCHANGED calls
    /\ UNCHANGED <<syncVars, mailVars>>

\* Graph PATCH /subscriptions/{id}: extends a registration that still exists
Patch(regs, id, expiration_date) ==
    {IF r.id = id THEN [r EXCEPT !.expires_at = expiration_date] ELSE r : r \in regs}

\* microsoft.py renew_subscription
MicrosoftRenew(c) ==
    /\ adapter = Microsoft
    /\ callers[c].phase = "pending" /\ callers[c].op = "renew"
    /\ now < MaxTime
    /\ now' = now + 1
    /\ LET id == callers[c].subscription_id
           found == {r \in registrations : r.id = id /\ Active(r)}
       IN  \/ \* the PATCH fails: 404 for a registration that is gone, or any other failure
              /\ UNCHANGED registrations
              /\ Abort(c, "renew_subscription")
           \/ /\ found # {}
              /\ registrations' = Patch(registrations, id, callers[c].expiration_date)
              /\ LET r == CHOOSE x \in found : TRUE
                     json == Sub(id, Resource(r.kind), callers[c].expiration_date, Absent)
                 IN  Finish(c, TRUE, IF r.kind = "email"
                                     THEN [email |-> json, calendar |-> NoSub]
                                     ELSE [email |-> NoSub, calendar |-> json])
    /\ UNCHANGED <<nextId, calls>>
    /\ UNCHANGED <<syncVars, mailVars>>

\* time passes
Tick ==
    /\ now < MaxTime
    /\ now' = now + 1
    /\ UNCHANGED <<registrations, nextId, callers, reported, calls>>
    /\ UNCHANGED <<syncVars, mailVars>>

NextSub ==
    \/ \E c \in Callers : CallSubscribe(c)
    \/ \E c \in Callers : CallRenew(c)
    \/ \E c \in Callers : GoogleSubscribe(c)
    \/ \E c \in Callers : GoogleRenew(c)
    \/ \E c \in Callers : MicrosoftSubscribeEmail(c)
    \/ \E c \in Callers : MicrosoftSubscribeCalendar(c)
    \/ \E c \in Callers : MicrosoftRenew(c)
    \/ Tick

SpecSub == InitSub /\ [][NextSub]_vars

-----------------------------------------------------------------------------
(* Properties of get_contacts *)

\* the contacts a listing holds, page by page in provider order
Normalized(chain) ==
    LET Page(page) == ParsePage(adapter, page) IN Flatten(MapSeq(Page, chain))

\* the first n pages of a chain
FirstPages(chain, n) == SubSeq(chain, 1, n)

\* the contacts the call holds: those returned, or those accumulated so far
Held == IF pc = "done" THEN result.contacts
        ELSE IF pc = "running" THEN Top.contacts ELSE <<>>

AllOk == \A i \in 1..Len(outcomes) : outcomes[i] = "ok"

\* the positions of the requests the provider rejected with 410
GoneAt == {i \in 1..Len(outcomes) : outcomes[i] = Gone}

\* the positions of the requests that start a full sync
FullSyncStarts ==
    {i \in 1..Len(requests) : /\ requests[i].syncToken = Absent
                              /\ requests[i].pageToken = NoPage}

\* C1: Workspace-style get_contacts with a sync token whose incremental
\* request is rejected with 410 restarts exactly once with a null token: the
\* requests after the rejection carry no sync token, a return hands back
\* exactly the full listing and the sync token of its last page, and a 410 on
\* the restarted sync is the last request and ends the call with an error.
C1_RestartsOnceAsFullSync ==
    (adapter = Google /\ Truthy(sync_token) /\ GoneAt # {}) =>
        LET first == CHOOSE i \in GoneAt : \A j \in GoneAt : i <= j
        IN  /\ \A i \in 1..Len(requests) :
                   (requests[i].syncToken = Absent) <=> (i > first)
            /\ Cardinality(FullSyncStarts) <= 1
            /\ Len(requests) > first => FullSyncStarts = {first + 1}
            /\ pc = "done" =>
                   /\ result.contacts = Normalized(fullChain)
                   /\ result.next_sync_token =
                          responses[Len(responses)].nextSyncToken
                   /\ Len(requests) = first + Len(fullChain)
            /\ \A j \in GoneAt : j > first =>
                   /\ j = Len(requests)
                   /\ pc = "error"
                   /\ result = NoResult
                   /\ error.provider = Google /\ error.operation = "get_contacts"

\* C1 witness: an incremental page was accumulated, the repeated incremental
\* request was rejected with 410, and the full sync returned contacts
C1_Witness ==
    /\ adapter = Google /\ Truthy(sync_token)
    /\ outcomes = <<"ok", Gone, "ok">>
    /\ pc = "done"
    /\ result.contacts # <<>>
    /\ ParsePage(Google, responses[1].connections) # <<>>

\* C2: Graph-style get_contacts with a delta token whose incremental request
\* is rejected as cursor-no-longer-valid does not surface the rejection: it
\* goes on as a full sync from a null cursor.
C2_GraphRestartsAsFullSync ==
    (adapter = Microsoft /\ Truthy(sync_token) /\ GoneAt # {}
        /\ \A i \in GoneAt : requests[i].endpoint = "/me/contacts/delta") =>
        /\ pc # "error"
        /\ pc = "running" => Top.url = InitialUrl(NULL)

\* C3: without a stale-cursor event or an error, the contacts a call holds are
\* those of the pages fetched so far, each page of the chain once and in
\* provider order, and the call returns the contacts of the whole chain.
C3_PagesOnceInOrder ==
    AllOk =>
        LET chain == IF Truthy(sync_token) THEN deltaChain ELSE fullChain
        IN  /\ Len(responses) <= Len(chain)
            /\ Held = Normalized(FirstPages(chain, Len(responses)))
            /\ pc = "done" => /\ Len(responses) = Len(chain)
                              /\ result.contacts = Normalized(chain)

\* a raw entry that has neither an email address nor a phone number
NoAddressNoPhone(entry) ==
    IF adapter = Google
    THEN entry.emailAddresses = <<>> /\ entry.phoneNumbers = <<>>
    ELSE entry \in {M0, MD0}

\* the raw entries the provider has served to the call
Served == UNION {{page[i] : i \in 1..Len(page)} :
                 page \in {IF adapter = Google THEN responses[k].connections
                           ELSE responses[k].value : k \in 1..Len(responses)}}

\* the id a raw entry is known by
EntryId(entry) == IF adapter = Google THEN entry.resourceName ELSE entry.id

\* C4: every contact of a returned list has at least one identifier; entries
\* without email address and phone number are left out, and no error arises
\* from them (an error only follows a failed request).
C4_NoContactWithoutIdentifier ==
    /\ pc = "done" =>
        /\ \A i \in 1..Len(result.contacts) : result.contacts[i].identifiers # <<>>
        /\ \A e \in Served : NoAddressNoPhone(e) =>
               \A i \in 1..Len(result.contacts) : result.contacts[i].id # EntryId(e)
    /\ pc = "error" => ~AllOk

\* C4 witness: a returned list from pages that held an entry without identifiers
C4_Witness ==
    /\ pc = "done"
    /\ result.contacts # <<>>
    /\ \E e \in Served : NoAddressNoPhone(e)

\* a request that asks the provider for a resumable token
AsksResumableToken(request) ==
    IF adapter = Google
    THEN request.requestSyncToken \/ request.syncToken # Absent
    ELSE request.endpoint = "/me/contacts/delta"

\* C5: every page request of a full sync (null token) asks the provider for a
\* resumable token, the requests for the later pages included.
C5_FullSyncAsksResumableToken ==
    ~Truthy(sync_token) =>
        \A i \in 1..Len(requests) : AsksResumableToken(requests[i])

\* the first non-blank $deltatoken of a delta link's query, NULL if it has none
TokenIn(link) ==
    LET at == {j \in 1..Len(link.query) :
                 link.query[j][1] = "$deltatoken" /\ link.query[j][2] # ""}
    IN  IF at = {} THEN NULL
        ELSE link.query[CHOOSE j \in at : \A k \in at : j <= k][2]

\* C6: Graph-style get_contacts: a response with a next-page link and no delta
\* link is followed by a request to that link before the call returns; a
\* response with a delta link and no next-page link is followed by no request
\* and the call returns the delta token of that link.
C6_FollowsNextLinkStopsAtDeltaLink ==
    adapter = Microsoft =>
        \A i \in 1..Len(responses) :
            /\ (responses[i].nextLink # NoUrl /\ ~responses[i].deltaLink.present) =>
                   /\ pc # "done" \/ Len(requests) > i
                   /\ Len(requests) > i => requests[i + 1] = responses[i].nextLink
                   /\ Len(requests) = i => pc = "running" /\ Top.url = responses[i].nextLink
            /\ (responses[i].nextLink = NoUrl /\ responses[i].deltaLink.present) =>
                   /\ Len(requests) = i
                   /\ pc = "done"
                   /\ result.next_sync_token = TokenIn(responses[i].deltaLink)

\* C6 witness: a two-page chain was followed and the call returned the token
\* of a delta link whose first $deltatoken is blank
C6_Witness ==
    /\ adapter = Microsoft
    /\ Len(responses) = 2
    /\ responses[1].nextLink # NoUrl
    /\ pc = "done"
    /\ result.next_sync_token = "D3"

\* the positions of the requests that failed otherwise than as cursor-invalid
FailedAt == {i \in 1..Len(outcomes) : outcomes[i] \in Failures \ {Gone}}

\* C10: a page request that fails otherwise than as cursor-invalid is the last
\* request of the call; the call ends with an error and returns nothing, the
\* contacts of the earlier pages included.
C10_FailureAbortsWithoutPartialResult ==
    \A i \in FailedAt :
        /\ i = Len(requests)
        /\ pc = "error"
        /\ result = NoResult
        /\ error.provider = adapter /\ error.operation = "get_contacts"

\* C10 witness: the request for the second page failed after the first page
\* had yielded contacts
C10_Witness ==
    /\ Len(outcomes) = 2 /\ outcomes[1] = "ok" /\ outcomes[2] \in Failures \ {Gone}
    /\ LET first == IF adapter = Google THEN responses[1].connections
                    ELSE responses[1].value
       IN  ParsePage(adapter, first) # <<>>
    /\ pc = "error"

-----------------------------------------------------------------------------
(* Properties of the subscriptions *)

\* the Active registrations of one resource kind (one provider, one account)
ActiveOf(kind) == {r \in registrations : r.kind = kind /\ Active(r)}

NoDuplicateActive == \A kind \in {"email", "calendar"} : Cardinality(ActiveOf(kind)) <= 1

\* C7: with one subscribe call and any renewals of what it created, no two
\* Active registrations exist for the same (provider, resource kind, account).
C7_RenewalSupersedes ==
    calls.subscribe <= 1 => NoDuplicateActive

\* C8: renew_subscription on the Workspace-style adapter returns a record
\* whose id differs from the id of the subscription handed in and whose
\* expirations are strictly later than those of the record that subscription
\* came from.
C8_RenewalIsNewAndLater ==
    adapter = Google =>
        \A rep \in reported, prev \in reported :
            (rep.op = "renew" /\ rep.ok /\ prev.ok
                /\ prev.calendar.id = rep.subscription_id) =>
                /\ rep.calendar.id # rep.subscription_id
                /\ rep.calendar.expiration > prev.calendar.expiration
                /\ rep.email.expiration > prev.email.expiration

\* C8 witness: a renewal of a subscription that an earlier call handed out
\* has returned
C8_Witness ==
    /\ adapter = Google
    /\ \E rep \in reported, prev \in reported :
        /\ rep.op = "renew" /\ rep.ok /\ prev.ok
        /\ prev.calendar.id = rep.subscription_id
        /\ \E r \in registrations : r.id = rep.calendar.id

\* C9: two renew_subscription calls for the same subscription that were in
\* progress together leave at most one Active registration per (provider,
\* resource kind, account).
C9_ConcurrentRenewalsLeaveOneActive ==
    calls.subscribe <= 1 =>
        \A a \in reported, b \in reported :
            (a.op = "renew" /\ b.op = "renew" /\ a.caller # b.caller
                /\ a.subscription_id = b.subscription_id
                /\ a.overlap /\ b.overlap /\ a.ok /\ b.ok) =>
                NoDuplicateActive

\* the name of the method a caller invoked
OperationName(op) ==
    IF op = "renew" THEN "renew_subscription" ELSE "subscribe_to_realtime_events"

\* C11: every error that leaves subscribe_to_realtime_events or
\* renew_subscription is the IntegrationException tagged with the adapter's
\* provider and with the operation the caller invoked.
C11_ErrorTaggedWithInvokedOperation ==
    \A rep \in reported :
        ~rep.ok => /\ rep.error.provider = adapter
                   /\ rep.error.operation = OperationName(rep.op)

\* C12: every registration a call creates or extends is for the account and
\* the user the subscription was made for; a subscription id never takes the
\* place of the user id.
C12_RenewalKeepsAccountScope ==
    \A r \in registrations :
        /\ r.account = Account
        /\ r.userId \in {Account, UserId}
        /\ r.userId \notin {x.id : x \in registrations}

\* C13: renew_subscription for a subscription that had expired when the call
\* was made does not return a record; only subscribe_to_realtime_events leads
\* from an expired subscription to an Active one.
C13_ExpiredIsNotRenewed ==
    \A rep \in reported : (rep.op = "renew" /\ rep.expired) => ~rep.ok

\* the caller has been handed registration r by a call that returned
Told(r) ==
    \E rep \in reported :
        /\ rep.ok
        /\ LET sub == IF r.kind = "email" THEN rep.email ELSE rep.calendar
           IN  /\ sub # NoSub
               /\ sub.id = r.id \/ sub.id = Absent
               /\ sub.expiration = r.expires_at

\* registration r was created by a call that is still in progress
InProgress(r) ==
    \E c \in Callers :
        /\ callers[c].phase = "pending"
        /\ callers[c].subscriptions.email.id = r.id

\* C16: every Active registration at the provider has been reported to a
\* caller by the call that created or extended it, or that call is still in
\* progress.
C16_EveryRegistrationReported ==
    \A r \in registrations : Active(r) => Told(r) \/ InProgress(r)

\* the requests of the call are pairwise different
NoRequestTwice ==
    \A i, j \in 1..Len(requests) : i < j => requests[i] # requests[j]

\* C15: get_contacts over a finite page chain with no failing request
\* eventually returns; an incremental call whose first response carries a
\* next-page token does not request the same page forever.  The provider's
\* answer is a function of the request and the loop's next request is a
\* function of that answer, so a call that sends one request twice sends it
\* forever: a returning call never repeats a request.
C15_NeverRequestsSamePageAgain ==
    AllOk => NoRequestTwice

-----------------------------------------------------------------------------
(* Properties of get_email_content *)

RECURSIVE AnyNamedPart(_)
\* some sub-part of the part, at any depth, has a filename that is not blank
AnyNamedPart(part) ==
    /\ part.hasParts
    /\ \E i \in 1..Len(part.parts) :
           HasFilename(part.parts[i]) \/ AnyNamedPart(part.parts[i])

\* C14: has_attachments of a normalised Gmail message is true exactly when
\* the payload has a sub-part, at any nesting depth, with a non-empty filename.
C14_HasAttachmentsAtAnyDepth ==
    mail_pc = "done" => (email.has_attachments <=> AnyNamedPart(message.payload))

====
